---- MODULE Spec2Model ----
(***************************************************************************)
(* kubectl-multi_context: context resolution (cmd/contexts.go), output     *)
(* format detection and the result aggregators (cmd/output.go).            *)
(*                                                                         *)
(* A text is a sequence of one-character strings, so that trimming,        *)
(* splitting, case folding and substring search are computed character by  *)
(* character as the Go standard library computes them.  A printed line is  *)
(* a sequence of fragments whose concatenation is the line.                *)
(***************************************************************************)
EXTENDS Integers, Sequences, FiniteSets, TLC

VARIABLES
    pc,          \* position of the running function
    args,        \* detectOutputFormat: the argument list
    format,      \* the detected / requested outputFormat
    kube,        \* getContexts: the kubeconfig on disk, as the two loaders see it
    filterPattern, \* getContexts: the package-level filter pattern
    contexts,    \* getContexts: the local slice `contexts`
    fallbackUsed, \* getContexts: clientcmd.LoadFromFile was called
    resolved,    \* getContexts: `contexts` as it reaches the filter step
    retErr,      \* the error a function returned (NoError when nil)
    subcommand,  \* formatOutput: the subcommand that was run
    results,     \* the formatters: []contextResult
    idx,         \* the formatters: number of results already visited
    allItems,    \* formatJSONOutput / formatYAMLOutput: the merged slice
    origin,      \* for each entry of allItems, the result index it came from
    stdout,      \* primary output, a sequence of lines
    stderr       \* diagnostic output, a sequence of lines

vars == << pc, args, format, kube, filterPattern, contexts, fallbackUsed,
           resolved, retErr, subcommand, results, idx, allItems, origin, stdout, stderr >>

----------------------------------------------------------------------------
(* Bounds of the model. *)

MaxArgs == 4

MaxContexts == 2

MaxNameLen == 2

MaxPatLen == 2

MaxResults == 2

----------------------------------------------------------------------------
(* Texts and the strings package. *)

SeqsUpTo(S, n) == UNION { [1..k -> S] : k \in 0..n }

UpperLetters ==
    << "A","B","C","D","E","F","G","H","I","J","K","L","M",
       "N","O","P","Q","R","S","T","U","V","W","X","Y","Z" >>

LowerLetters ==
    << "a","b","c","d","e","f","g","h","i","j","k","l","m",
       "n","o","p","q","r","s","t","u","v","w","x","y","z" >>

ToLowerChar(c) ==
    IF \E i \in 1..26 : UpperLetters[i] = c
    THEN LowerLetters[CHOOSE i \in 1..26 : UpperLetters[i] = c]
    ELSE c

\* strings.ToLower
ToLower(s) == [i \in 1..Len(s) |-> ToLowerChar(s[i])]

\* strings.Contains(s, substr)
Contains(s, substr) ==
    \E i \in 0..(Len(s) - Len(substr)) :
        \A j \in 1..Len(substr) : s[i + j] = substr[j]

\* strings.HasPrefix(s, prefix)
HasPrefix(s, prefix) ==
    /\ Len(prefix) <= Len(s)
    /\ \A j \in 1..Len(prefix) : s[j] = prefix[j]

\* strings.TrimPrefix(s, prefix)
TrimPrefix(s, prefix) ==
    IF HasPrefix(s, prefix) THEN SubSeq(s, Len(prefix) + 1, Len(s)) ELSE s

\* unicode.IsSpace, on the characters the model uses
IsSpace(c) == c \in {" ", "\n", "\t", "\r"}

\* strings.TrimSpace
TrimSpace(s) ==
    LET keep == { i \in 1..Len(s) : ~IsSpace(s[i]) }
    IN  IF keep = {} THEN << >>
        ELSE LET lo == CHOOSE i \in keep : \A j \in keep : i <= j
                 hi == CHOOSE i \in keep : \A j \in keep : j <= i
             IN  SubSeq(s, lo, hi)

RECURSIVE SplitFrom(_, _, _)
SplitFrom(s, sep, i) ==
    LET hits == { j \in i..Len(s) : s[j] = sep }
    IN  IF hits = {} THEN << SubSeq(s, i, Len(s)) >>
        ELSE LET j == CHOOSE h \in hits : \A g \in hits : h <= g
             IN  << SubSeq(s, i, j - 1) >> \o SplitFrom(s, sep, j + 1)

\* strings.Split(s, sep) for a one-character separator
Split(s, sep) == SplitFrom(s, sep, 1)

\* strings.Repeat(" ", n); Go panics on a negative count
Repeat(c, n) == [i \in 1..n |-> c]

Nil == "nil"

\* A nil error; a non-nil error is the sequence of the fragments of its message.
NoError == << >>

----------------------------------------------------------------------------
(* cmd/output.go: detectOutputFormat *)

formatDefault == "default"

formatJSON == "json"

formatYAML == "yaml"

FlagO == << "-", "o" >>

FlagOutput == << "-", "-", "o", "u", "t", "p", "u", "t" >>

TokJson == << "j", "s", "o", "n" >>

TokYaml == << "y", "a", "m", "l" >>

Tokens ==
    { FlagO, FlagOutput, TokJson, TokYaml,
      << "J", "S", "O", "N" >>, << "Y", "A", "M", "L" >>, << "Y", "a", "m", "l" >>,
      << "w", "i", "d", "e" >>, << "p", "o", "d", "s" >> }

\* The loop of detectOutputFormat scans every occurrence and keeps the last
\* recognised value instead of returning at the first.
RECURSIVE detectLastFrom(_, _, _)
detectLastFrom(a, i, acc) ==
    IF i > Len(a) THEN acc
    ELSE IF (a[i] = FlagO \/ a[i] = FlagOutput) /\ i + 1 <= Len(a)
         THEN LET f == ToLower(a[i + 1])
              IN  IF f = TokJson THEN detectLastFrom(a, i + 1, formatJSON)
                  ELSE IF f = TokYaml THEN detectLastFrom(a, i + 1, formatYAML)
                  ELSE detectLastFrom(a, i + 1, acc)
         ELSE detectLastFrom(a, i + 1, acc)

detectOutputFormatLast(a) == detectLastFrom(a, 1, formatDefault)

RECURSIVE detectFrom(_, _)
detectFrom(a, i) ==
    IF i > Len(a) THEN formatDefault
    ELSE IF (a[i] = FlagO \/ a[i] = FlagOutput) /\ i + 1 <= Len(a)
         THEN LET f == ToLower(a[i + 1])
              IN  IF f = TokJson THEN formatJSON
                  ELSE IF f = TokYaml THEN formatYAML
                  ELSE detectFrom(a, i + 1)
         ELSE detectFrom(a, i + 1)

detectOutputFormat(a) == detectFrom(a, 1)

Idle ==
    /\ kube = Nil
    /\ filterPattern = << >>
    /\ contexts = << >>
    /\ fallbackUsed = FALSE
    /\ resolved = << >>
    /\ retErr = NoError
    /\ subcommand = "get"
    /\ results = << >>
    /\ idx = 0
    /\ allItems = << >>
    /\ origin = << >>
    /\ stdout = << >>
    /\ stderr = << >>

InitDetect ==
    /\ pc = "detect"
    /\ args \in SeqsUpTo(Tokens, MaxArgs)
    /\ format = formatDefault
    /\ Idle

Detect ==
    /\ pc = "detect"
    /\ format' = detectOutputFormat(args)
    /\ pc' = "detected"
    /\ UNCHANGED << args, kube, filterPattern, contexts, fallbackUsed, resolved,
                    retErr, subcommand, results, idx, allItems, origin, stdout, stderr >>

NextDetect == Detect

SpecDetect == InitDetect /\ [][NextDetect]_vars

\* Positions of an output flag that is followed by a recognised value.
Recognised(a) ==
    { i \in 1..(Len(a) - 1) :
        /\ a[i] \in {FlagO, FlagOutput}
        /\ ToLower(a[i + 1]) \in {TokJson, TokYaml} }

\* C9 (as stated): every list containing -o immediately followed by json
\* yields JSON, every list containing --output immediately followed by yaml
\* in any letter case yields YAML, and every list containing neither flag
\* yields Default.
C9_AsStated ==
    pc = "detected" =>
        /\ (\E i \in 1..(Len(args) - 1) : args[i] = FlagO /\ args[i + 1] = TokJson)
              => format = formatJSON
        /\ (\E i \in 1..(Len(args) - 1) :
                args[i] = FlagOutput /\ ToLower(args[i + 1]) = TokYaml)
              => format = formatYAML
        /\ (\A i \in 1..Len(args) : args[i] \notin {FlagO, FlagOutput})
              => format = formatDefault

\* C9 (amended): detect returns the format named after the leftmost output
\* flag (-o or --output) whose following token lower-cases to json or yaml,
\* and Default when no flag is followed by such a token; in particular a
\* list containing neither flag yields Default.
C9_FirstRecognisedWins ==
    pc = "detected" =>
        IF Recognised(args) = {}
        THEN format = formatDefault
        ELSE LET m == CHOOSE i \in Recognised(args) :
                          \A j \in Recognised(args) : i <= j
             IN  format = IF ToLower(args[m + 1]) = TokJson
                          THEN formatJSON ELSE formatYAML

\* C9 witness: -o json is present, but an earlier -o yaml decided the format.
C9_Witness ==
    /\ pc = "detected"
    /\ args = << FlagO, TokYaml, FlagO, TokJson >>
    /\ format = formatYAML

----------------------------------------------------------------------------
(* cmd/contexts.go: getContexts, filterContexts, getKubeconfigPath *)

NameChars == { "A", "b" }

PatChars == { "a", "B" }

\* Context names as they appear in a kubeconfig; an entry without a name
\* decodes to the empty string.
Names == SeqsUpTo(NameChars, MaxNameLen) \ { << >> }

Patterns == SeqsUpTo(PatChars, MaxPatLen)

\* What clientcmd.LoadFromFile makes of the file: an error, or a map keyed
\* by context name.
StrictOutcomes ==
    { [err |-> TRUE, names |-> {}],
      [err |-> FALSE, names |-> {}],
      [err |-> FALSE, names |-> { << "A" >>, << "b", "A" >> }] }

\* The kubeconfig and its environment: KUBECONFIG, whether os.UserHomeDir
\* fails, whether os.ReadFile fails, the shape of the document, the names of
\* the entries of its `contexts` list, and the outcome of the clientcmd
\* loader on the same file.  The shapes: "list", contexts is a list of
\* mappings (an entry without a name has the empty name); "absent", there
\* is no contexts key; "mistyped", contexts is not a list of mappings with a
\* text name (a scalar, a mapping, a list of scalars); "invalid", the file
\* is not YAML.
Kubeconfigs ==
    { [env |-> "", homeErr |-> TRUE, readErr |-> FALSE, shape |-> "list",
       entries |-> << >>, strict |-> [err |-> TRUE, names |-> {}]],
      [env |-> "/k", homeErr |-> FALSE, readErr |-> TRUE, shape |-> "list",
       entries |-> << >>, strict |-> [err |-> TRUE, names |-> {}]] }
    \cup
    { [env |-> e, homeErr |-> FALSE, readErr |-> FALSE, shape |-> sh,
       entries |-> << >>, strict |-> st] :
         e \in { "", "/k" }, sh \in { "absent", "mistyped", "invalid" },
         st \in StrictOutcomes }
    \cup
    { [env |-> "/k", homeErr |-> FALSE, readErr |-> FALSE, shape |-> "list",
       entries |-> en, strict |-> st] :
         en \in SeqsUpTo(Names \cup { << >> }, MaxContexts),
         st \in StrictOutcomes }

\* yaml.Unmarshal(file, &config) with config a Kubeconfig: a file that is
\* not YAML and a contexts value that does not fit []ContextEntry are
\* errors; a missing contexts key leaves config.Contexts empty.
unmarshalFails(k) == k.shape \in { "mistyped", "invalid" }

getKubeconfigPath(k) ==
    IF k.env # "" THEN k.env
    ELSE IF k.homeErr THEN ""
    ELSE "$HOME/.kube/config"

\* The loop over config.Contexts without the test for an empty name.
primaryNamesKeepEmpty(entries) == entries

\* The loop over config.Contexts: the non-empty names, in document order.
RECURSIVE primaryNames(_)
primaryNames(entries) ==
    IF entries = << >> THEN << >>
    ELSE IF Head(entries) # << >>
         THEN << Head(entries) >> \o primaryNames(Tail(entries))
         ELSE primaryNames(Tail(entries))

\* The orders in which ranging over a Go map can enumerate its keys.
Enumerations(S) ==
    { q \in [1..Cardinality(S) -> S] : \A x \in S : \E i \in DOMAIN q : q[i] = x }

\* filterContexts comparing without folding the pattern's case.
RECURSIVE filterContextsCaseSensitive(_, _)
filterContextsCaseSensitive(ctxs, pattern) ==
    IF pattern = << >> THEN ctxs
    ELSE IF ctxs = << >> THEN << >>
    ELSE IF Contains(ToLower(Head(ctxs)), pattern)
         THEN << Head(ctxs) >> \o filterContextsCaseSensitive(Tail(ctxs), pattern)
         ELSE filterContextsCaseSensitive(Tail(ctxs), pattern)

RECURSIVE filterLoop(_, _)
filterLoop(ctxs, patternLower) ==
    IF ctxs = << >> THEN << >>
    ELSE IF Contains(ToLower(Head(ctxs)), patternLower)
         THEN << Head(ctxs) >> \o filterLoop(Tail(ctxs), patternLower)
         ELSE filterLoop(Tail(ctxs), patternLower)

filterContexts(ctxs, pattern) ==
    IF pattern = << >> THEN ctxs
    ELSE filterLoop(ctxs, ToLower(pattern))

InitContexts ==
    /\ pc = "resolve"
    /\ kube \in Kubeconfigs
    /\ filterPattern \in Patterns
    /\ contexts = << >>
    /\ fallbackUsed = FALSE
    /\ resolved = << >>
    /\ retErr = NoError
    /\ args = << >>
    /\ format = formatDefault
    /\ subcommand = "get"
    /\ results = << >>
    /\ idx = 0
    /\ allItems = << >>
    /\ origin = << >>
    /\ stdout = << >>
    /\ stderr = << >>

Fail(msg) ==
    /\ pc' = "failed"
    /\ retErr' = msg
    /\ contexts' = << >>

\* getContexts, one disjunct per return.
GetContexts ==
    /\ pc = "resolve"
    /\ UNCHANGED << args, format, kube, filterPattern, subcommand, results, idx, allItems,
                    origin, stdout, stderr >>
    /\ LET primary == primaryNames(kube.entries)
       IN
       \/ /\ getKubeconfigPath(kube) = ""
          /\ Fail(<< "could not determine kubeconfig path" >>)
          /\ UNCHANGED << fallbackUsed, resolved >>
       \/ /\ getKubeconfigPath(kube) # ""
          /\ kube.readErr
          /\ Fail(<< "failed to read kubeconfig: ", "read error" >>)
          /\ UNCHANGED << fallbackUsed, resolved >>
       \/ /\ getKubeconfigPath(kube) # ""
          /\ ~kube.readErr
          /\ unmarshalFails(kube)
          /\ Fail(<< "failed to parse kubeconfig: ", "yaml error" >>)
          /\ UNCHANGED << fallbackUsed, resolved >>
       \/ /\ getKubeconfigPath(kube) # ""
          /\ ~kube.readErr
          /\ ~unmarshalFails(kube)
          /\ primary = << >>
          /\ kube.strict.err
          /\ fallbackUsed' = TRUE
          /\ Fail(<< "failed to load kubeconfig: ", "load error" >>)
          /\ UNCHANGED resolved
       \/ /\ getKubeconfigPath(kube) # ""
          /\ ~kube.readErr
          /\ ~unmarshalFails(kube)
          /\ \E found \in IF primary # << >> THEN { primary }
                          ELSE IF kube.strict.err THEN {}
                          ELSE Enumerations(kube.strict.names) :
               /\ fallbackUsed' = (primary = << >>)
               /\ \/ /\ found = << >>
                     /\ Fail(<< "no contexts found in kubeconfig" >>)
                     /\ UNCHANGED resolved
                  \/ /\ found # << >>
                     /\ resolved' = found
                     /\ filterPattern # << >>
                     /\ filterContexts(found, filterPattern) = << >>
                     /\ Fail(<< "no contexts match filter pattern: ", filterPattern >>)
                  \/ /\ found # << >>
                     /\ resolved' = found
                     /\ (filterPattern = << >>
                           \/ filterContexts(found, filterPattern) # << >>)
                     /\ contexts' = IF filterPattern # << >>
                                    THEN filterContexts(found, filterPattern)
                                    ELSE found
                     /\ retErr' = NoError
                     /\ pc' = "resolved"

NextContexts == GetContexts

SpecContexts == InitContexts /\ [][NextContexts]_vars

\* The positions of C whose name contains the pattern, case-insensitively.
Hits(C, p) == { i \in 1..Len(C) : Contains(ToLower(C[i]), ToLower(p)) }

\* The k-th smallest element of a set of positions.
Kth(S, k) == CHOOSE i \in S : Cardinality({ j \in S : j <= i }) = k

\* C10: for a non-empty pattern p the filter step returns exactly the
\* elements of the resolved sequence whose lower-cased name contains lower(p),
\* in their original order and with duplicates kept; filtering that result
\* again with p changes nothing; getContexts fails with the "no contexts
\* match filter pattern: p" error exactly when the result is empty; with an
\* empty pattern the sequence is returned unchanged.
C10_FilterExact ==
    (pc \in { "resolved", "failed" } /\ resolved # << >>) =>
        LET hits == Hits(resolved, filterPattern)
            noMatch == << "no contexts match filter pattern: ", filterPattern >>
        IN  IF filterPattern = << >>
            THEN pc = "resolved" /\ retErr = NoError /\ contexts = resolved
            ELSE /\ (hits = {}) <=> (pc = "failed" /\ retErr = noMatch)
                 /\ hits # {} =>
                      /\ pc = "resolved"
                      /\ retErr = NoError
                      /\ Len(contexts) = Cardinality(hits)
                      /\ \A k \in 1..Len(contexts) :
                            contexts[k] = resolved[Kth(hits, k)]
                      /\ filterContexts(contexts, filterPattern) = contexts

\* C10 witness: a non-empty pattern kept one of two resolved names, matching
\* it only after case folding, and dropped the other.
C10_Witness ==
    /\ pc = "resolved"
    /\ filterPattern # << >>
    /\ Len(resolved) = 2
    /\ Len(contexts) = 1
    /\ contexts[1] = resolved[2]
    /\ ~Contains(contexts[1], filterPattern)

\* The file was found, read and decoded by yaml.Unmarshal, so both strategies
\* had their turn to be considered.
Decodable ==
    /\ getKubeconfigPath(kube) # ""
    /\ ~kube.readErr
    /\ kube.shape \in { "list", "absent" }

\* The positions of the contexts list that carry a non-empty name.
Named == { i \in 1..Len(kube.entries) : kube.entries[i] # << >> }

\* C11: when the primary parse finds at least one non-empty context name the
\* clientcmd fallback is never invoked and the resolved sequence, before
\* filtering, is exactly the primary names in document order; the fallback is
\* invoked only when the primary parse yields no name; and getContexts fails
\* with "no contexts found in kubeconfig" exactly when the primary parse
\* yields no name and the fallback loads the file and yields no name either.
C11_PrimaryThenFallback ==
    pc \in { "resolved", "failed" } =>
        /\ (Decodable /\ Named # {}) =>
              /\ ~fallbackUsed
              /\ Len(resolved) = Cardinality(Named)
              /\ \A k \in 1..Len(resolved) :
                    resolved[k] = kube.entries[Kth(Named, k)]
        /\ fallbackUsed => (Decodable /\ Named = {})
        /\ (pc = "failed" /\ retErr = << "no contexts found in kubeconfig" >>)
              <=> /\ Decodable
                  /\ Named = {}
                  /\ ~kube.strict.err
                  /\ kube.strict.names = {}

\* C11 witness: the contexts list holds an entry without a name and a named
\* one, the clientcmd loader would have found other names, and getContexts
\* resolved the single primary name without invoking the fallback.
C11_Witness ==
    /\ pc = "resolved"
    /\ Len(kube.entries) = 2
    /\ kube.entries[1] = << >>
    /\ kube.entries[2] # << >>
    /\ Cardinality(kube.strict.names) = 2
    /\ ~fallbackUsed
    /\ resolved = << kube.entries[2] >>

\* C13 as stated: when the kubeconfig can be read but its contexts list is
\* absent or does not have the shape of a list of mappings with a name,
\* getContexts treats the primary parse as yielding no name and tries the
\* clientcmd fallback; it does not fail before the fallback has been tried.
C13_AsStated ==
    ( /\ pc \in { "resolved", "failed" }
      /\ getKubeconfigPath(kube) # ""
      /\ ~kube.readErr
      /\ kube.shape \in { "absent", "mistyped" } ) => fallbackUsed

\* The part of C13 the code keeps: an absent contexts list, or a list none of
\* whose entries carries a name, always reaches the fallback.
C13_AbsentReachesFallback ==
    (pc \in { "resolved", "failed" } /\ Decodable /\ Named = {}) => fallbackUsed

----------------------------------------------------------------------------
(* cmd/output.go: contextResult and the output streams *)

\* A line written by Printf / Fprintf: the format string and its arguments,
\* each argument a text.
Printf(fmt, a) == [fmt |-> fmt, args |-> a]

RowFmt == "%s%s  %s\n"

ErrorFmt == "Context %s: Error: %v\n"

OutputFmt == "Output: %s\n"

\* The error of a failed run of kubectl.
ExitError == << "exit status 1" >>

CtxNames == { << "a" >>, << "b", "b" >>, << "c", "l", "u", "s", "t", "e", "r", "9" >> }

\* contextResult{context, output, err}
contextResult(c, o, e) == [context |-> c, output |-> o, err |-> e]

\* What a failed kubectl leaves in result.output.
ErrOutputs == { << >>, << "E", "\n" >> }

Failures == { contextResult(c, o, ExitError) : c \in CtxNames, o \in ErrOutputs }

----------------------------------------------------------------------------
(* cmd/output.go: formatDefaultOutput *)

\* Payloads of a successful `kubectl get`: empty, blank, one line, a header
\* with rows, blank lines between rows, indented rows, surrounding blank
\* lines, a header with trailing blanks, another header.
TablePayloads ==
    { << >>,
      << " ", "\n" >>,
      << "x" >>,
      << "y", "\n" >>,
      << "H", "\n", "x", "\n" >>,
      << "H", "\n", "x", "\n", "y" >>,
      << "H", "\n", " ", "\n", "x" >>,
      << "\n", "H", "\n", " ", "x", " ", "\n" >>,
      << "H", " ", "\n", "y" >>,
      << "G", "\n", "z" >> }

TableResults ==
    { contextResult(c, o, NoError) : c \in CtxNames, o \in TablePayloads }
    \cup Failures

ContextLabel == << "C", "O", "N", "T", "E", "X", "T" >>

\* outputData{context, lines, err, errMsg}
outputData(c, l, e, m) == [context |-> c, lines |-> l, err |-> e, errMsg |-> m]

\* First pass with the `continue` of the error branch missing: a failed
\* result falls through and its captured text is collected as lines too.
RECURSIVE collectOutputsNoContinue(_)
collectOutputsNoContinue(rs) ==
    IF rs = << >> THEN << >>
    ELSE LET result == Head(rs)
             output == TrimSpace(result.output)
             lines == Split(output, "\n")
             rest == collectOutputsNoContinue(Tail(rs))
         IN  (IF result.err # NoError
              THEN << outputData(result.context, << >>, result.err, result.output) >>
              ELSE << >>)
             \o (IF output = << >> \/ Len(lines) = 0
                 THEN << >>
                 ELSE << outputData(result.context, lines, NoError, << >>) >>)
             \o rest

\* First pass: the entries appended to allOutputs.
RECURSIVE collectOutputs(_)
collectOutputs(rs) ==
    IF rs = << >> THEN << >>
    ELSE LET result == Head(rs)
             output == TrimSpace(result.output)
             lines == Split(output, "\n")
             rest == collectOutputs(Tail(rs))
         IN  IF result.err # NoError
             THEN << outputData(result.context, << >>, result.err, result.output) >>
                  \o rest
             ELSE IF output = << >> THEN rest
             ELSE IF Len(lines) = 0 THEN rest
             ELSE << outputData(result.context, lines, NoError, << >>) >> \o rest

\* First pass: maxContextWidth, starting from len("CONTEXT").
RECURSIVE maxContextWidth(_, _)
maxContextWidth(rs, w) ==
    IF rs = << >> THEN w
    ELSE LET result == Head(rs)
             output == TrimSpace(result.output)
             wider == IF Len(result.context) > w THEN Len(result.context) ELSE w
         IN  IF result.err # NoError THEN maxContextWidth(Tail(rs), wider)
             ELSE IF output = << >> THEN maxContextWidth(Tail(rs), w)
             ELSE IF Len(Split(output, "\n")) = 0 THEN maxContextWidth(Tail(rs), w)
             ELSE maxContextWidth(Tail(rs), wider)

\* Second pass: the entries that can supply the header.
HeaderCandidates(all) ==
    { i \in 1..Len(all) : all[i].err = NoError /\ Len(all[i].lines) > 1 }

headerFound(all) == HeaderCandidates(all) # {}

headerLine(all) ==
    LET i == CHOOSE c \in HeaderCandidates(all) :
                 \A d \in HeaderCandidates(all) : c <= d
    IN  all[i].lines[1]

\* The header row, when one was found.
printHeader(all, w) ==
    IF headerFound(all)
    THEN << Printf(RowFmt, << ContextLabel, Repeat(" ", w - Len(ContextLabel)),
                              headerLine(all) >>) >>
    ELSE << >>

\* The inner loop of the third pass: the rows of one entry, from line i on.
RECURSIVE printLines(_, _, _)
printLines(data, w, i) ==
    IF i > Len(data.lines) THEN << >>
    ELSE LET line == TrimSpace(data.lines[i])
         IN  IF line = << >> THEN printLines(data, w, i + 1)
             ELSE << Printf(RowFmt, << data.context,
                                       Repeat(" ", w - Len(data.context)), line >>) >>
                  \o printLines(data, w, i + 1)

\* Third pass skipping the first line of every entry once a header was
\* found, whether or not the entry has more than one line.
RECURSIVE printRowsAlwaysSkip(_, _, _)
printRowsAlwaysSkip(all, found, w) ==
    IF all = << >> THEN << >>
    ELSE LET data == Head(all)
             startIdx == IF found THEN 1 ELSE 0
         IN  IF data.err # NoError THEN printRowsAlwaysSkip(Tail(all), found, w)
             ELSE printLines(data, w, startIdx + 1)
                  \o printRowsAlwaysSkip(Tail(all), found, w)

\* Third pass, primary output: the rows of every entry without an error.
RECURSIVE printRows(_, _, _)
printRows(all, found, w) ==
    IF all = << >> THEN << >>
    ELSE LET data == Head(all)
             startIdx == IF found /\ Len(data.lines) > 1 THEN 1 ELSE 0
         IN  IF data.err # NoError THEN printRows(Tail(all), found, w)
             ELSE printLines(data, w, startIdx + 1) \o printRows(Tail(all), found, w)

\* The diagnostic lines of one failed result.
printError(c, e, text) ==
    << Printf(ErrorFmt, << c, e >>) >>
    \o (IF text # << >> THEN << Printf(OutputFmt, << text >>) >> ELSE << >>)

\* Third pass, diagnostic output.
RECURSIVE printErrors(_)
printErrors(all) ==
    IF all = << >> THEN << >>
    ELSE LET data == Head(all)
         IN  IF data.err # NoError
             THEN printError(data.context, data.err, data.errMsg)
                  \o printErrors(Tail(all))
             ELSE printErrors(Tail(all))

InitFormat(rs, f, sub) ==
    /\ pc = "format"
    /\ results = rs
    /\ format = f
    /\ subcommand = sub
    /\ args = << >>
    /\ kube = Nil
    /\ filterPattern = << >>
    /\ contexts = << >>
    /\ fallbackUsed = FALSE
    /\ resolved = << >>
    /\ retErr = NoError
    /\ idx = 0
    /\ allItems = << >>
    /\ origin = << >>
    /\ stdout = << >>
    /\ stderr = << >>

InitDefault ==
    \E rs \in SeqsUpTo(TableResults, MaxResults) : InitFormat(rs, formatDefault, "get")

\* formatOutput with the default format and a subcommand other than version.
FormatDefaultOutput ==
    /\ pc = "format"
    /\ format \notin { formatJSON, formatYAML }
    /\ subcommand # "version"
    /\ LET all == collectOutputs(results)
           w == maxContextWidth(results, Len(ContextLabel))
       IN  /\ stdout' = printHeader(all, w) \o printRows(all, headerFound(all), w)
           /\ stderr' = printErrors(all)
    /\ retErr' = NoError
    /\ pc' = "done"
    /\ UNCHANGED << args, format, kube, filterPattern, contexts, fallbackUsed,
                    resolved, subcommand, results, idx, allItems, origin >>

NextDefault == FormatDefaultOutput

SpecDefault == InitDefault /\ [][NextDefault]_vars

----------------------------------------------------------------------------
(* Properties of formatDefaultOutput *)

\* A printed row without its padding: the context column and the text.
Unpadded(rows) == [k \in 1..Len(rows) |-> << rows[k].args[1], rows[k].args[3] >>]

RECURSIVE Successes(_)
Successes(rs) ==
    IF rs = << >> THEN << >>
    ELSE IF Head(rs).err = NoError THEN << Head(rs) >> \o Successes(Tail(rs))
    ELSE Successes(Tail(rs))

\* The diagnostic lines the failed results of rs call for, in result order.
RECURSIVE Diagnostics(_)
Diagnostics(rs) ==
    IF rs = << >> THEN << >>
    ELSE LET r == Head(rs)
         IN  (IF r.err = NoError THEN << >>
              ELSE << [fmt |-> "Context %s: Error: %v\n", args |-> << r.context, r.err >>] >>
                   \o (IF r.output = << >> THEN << >>
                       ELSE << [fmt |-> "Output: %s\n", args |-> << r.output >>] >>))
             \o Diagnostics(Tail(rs))

\* C6: in the Default/tabular strategy no failed result contributes a header
\* or body row (the rows are those of the successes alone); each failed
\* result produces exactly one `Context <name>: Error: <error>` line,
\* followed by exactly one `Output: <text>` line iff its captured text is
\* non-empty; when every result failed the primary output is empty.
C6_FailuresOnlyDiagnosed ==
    pc = "done" =>
        LET succ == Successes(results)
            all == collectOutputs(succ)
            w == maxContextWidth(succ, Len(ContextLabel))
        IN  /\ stderr = Diagnostics(results)
            /\ Unpadded(stdout)
                 = Unpadded(printHeader(all, w) \o printRows(all, headerFound(all), w))
            /\ \A k \in 1..Len(stdout) :
                  \E i \in 1..Len(results) :
                      /\ results[i].err = NoError
                      /\ stdout[k].args[1] \in { results[i].context, ContextLabel }
                      /\ Contains(results[i].output, stdout[k].args[3])
            /\ (\A i \in 1..Len(results) : results[i].err # NoError) => stdout = << >>

\* C6 witness: a failed result with captured text next to a success with a
\* header: two diagnostic lines and a non-empty table.
C6_Witness ==
    /\ pc = "done"
    /\ Len(results) = 2
    /\ results[1].err # NoError
    /\ results[1].output # << >>
    /\ results[2].err = NoError
    /\ Len(stderr) = 2
    /\ Len(stdout) >= 2

\* The lines of result i's trimmed payload.
LinesOf(i) == Split(TrimSpace(results[i].output), "\n")

\* The successes with a non-empty trimmed payload.
Shown == { i \in 1..Len(results) :
             results[i].err = NoError /\ TrimSpace(results[i].output) # << >> }

\* Those of them with more than one line.
MultiLine == { i \in Shown : Len(LinesOf(i)) > 1 }

\* The non-blank lines of result i from line j on, trimmed, with its context.
RECURSIVE BodyFrom(_, _)
BodyFrom(i, j) ==
    IF j > Len(LinesOf(i)) THEN << >>
    ELSE (IF TrimSpace(LinesOf(i)[j]) = << >> THEN << >>
          ELSE << << results[i].context, TrimSpace(LinesOf(i)[j]) >> >>)
         \o BodyFrom(i, j + 1)

\* The body rows of results i.., in result order: a success's first line is
\* left out iff a header exists and the success has more than one line.
RECURSIVE BodyRows(_)
BodyRows(i) ==
    IF i > Len(results) THEN << >>
    ELSE (IF i \notin Shown THEN << >>
          ELSE IF MultiLine # {} /\ i \in MultiLine THEN BodyFrom(i, 2)
          ELSE BodyFrom(i, 1))
         \o BodyRows(i + 1)

\* C7: the header is the first line of the first success whose trimmed
\* payload has more than one line, printed exactly once and before all body
\* rows, and no header is printed when there is no such success; a
\* success's first line is left out of the body rows iff a header was
\* detected and that success has more than one line; every other non-blank
\* line of every non-empty success, the sole line of a single-line success
\* included, is a body row prefixed by its context, in result order.
C7_HeaderAndBody ==
    pc = "done" =>
        LET first == CHOOSE i \in MultiLine : \A j \in MultiLine : i <= j
            header == IF MultiLine = {} THEN << >>
                      ELSE << << ContextLabel, LinesOf(first)[1] >> >>
        IN  /\ Unpadded(stdout) = header \o BodyRows(1)
            /\ \A k \in 1..Len(stdout) : stdout[k].fmt = "%s%s  %s\n"

\* C7 witness: a single-line success ahead of a success with a header and
\* rows: the header comes from the second result and the first result's
\* sole line is still a body row.
C7_Witness ==
    /\ pc = "done"
    /\ Len(results) = 2
    /\ results[1].err = NoError
    /\ results[2].err = NoError
    /\ Len(LinesOf(1)) = 1
    /\ Len(LinesOf(2)) = 3
    /\ Len(stdout) = 4
    /\ stdout[1].args[3] = LinesOf(2)[1]
    /\ stdout[2].args[1] = results[1].context
    /\ stdout[2].args[3] = LinesOf(1)[1]

\* The larger of w and the lengths of the context names of the results in S.
WidthOver(S, w) ==
    LET lens == { w } \cup { Len(results[i].context) : i \in S }
    IN  CHOOSE n \in lens : \A m \in lens : m <= n

\* The width of the CONTEXT column of a printed row: the name and its padding.
ColumnWidth(row) == Len(row.args[1]) + Len(row.args[2])

\* C12 as stated: the header row and every body row pad the CONTEXT column
\* to max(len("CONTEXT"), the longest context name among the successes with
\* a non-empty trimmed payload); failed results and successes with an empty
\* payload do not widen the column.
C12_AsStated ==
    pc = "done" =>
        \A k \in 1..Len(stdout) :
            ColumnWidth(stdout[k]) = WidthOver(Shown, Len(ContextLabel))

\* What the code does instead: failed results widen the column as well, and
\* only the successes with an empty payload do not.
C12_FailuresWiden ==
    pc = "done" =>
        LET failed == { i \in 1..Len(results) : results[i].err # NoError }
        IN  \A k \in 1..Len(stdout) :
                ColumnWidth(stdout[k]) =
                    WidthOver(Shown \cup failed, Len(ContextLabel))

----------------------------------------------------------------------------
(* formatVersionOutput, the revision that prints the server version table *)

ClientLabel == << "C", "l", "i", "e", "n", "t", " ", "V", "e", "r", "s", "i", "o", "n", ":" >>

KustomizeLabel ==
    << "K", "u", "s", "t", "o", "m", "i", "z", "e", " ", "V", "e", "r", "s", "i", "o", "n", ":" >>

ServerLabel == << "S", "e", "r", "v", "e", "r", " ", "V", "e", "r", "s", "i", "o", "n", ":" >>

SentinelError == << "E", "R", "R", "O", "R" >>

SentinelNA == << "N", "/", "A" >>

ServerVersionTitle == << "S", "E", "R", "V", "E", "R", " ", "V", "E", "R", "S", "I", "O", "N" >>

VersionRowFmt == "%-30s  %s\n"

\* Payloads of a successful `kubectl version`: client and server, all three
\* lines, client only, empty, a server line without a value, two server
\* lines.
VersionPayloads ==
    { ClientLabel \o << " ", "1", "\n" >> \o ServerLabel \o << " ", "9", "\n" >>,
      ClientLabel \o << " ", "1", "\n" >> \o KustomizeLabel \o << " ", "5", "\n" >>
         \o << " " >> \o ServerLabel \o << " ", "8" >>,
      ClientLabel \o << " ", "2" >>,
      << >>,
      ServerLabel \o << " ", "\n" >>,
      ServerLabel \o << " ", "7", "\n" >> \o ServerLabel \o << " ", "8" >> }

VersionResults ==
    { contextResult(c, o, NoError) : c \in CtxNames, o \in VersionPayloads }
    \cup Failures

\* The first line of `lines`, trimmed, that starts with `label`: the trimmed
\* rest of that line, or the empty text when there is none.
RECURSIVE firstLabelled(_, _)
firstLabelled(lines, label) ==
    IF lines = << >> THEN << >>
    ELSE LET line == TrimSpace(Head(lines))
         IN  IF HasPrefix(line, label) THEN TrimSpace(TrimPrefix(line, label))
             ELSE firstLabelled(Tail(lines), label)

\* The inner loop of the first pass: a version found earlier is kept, and a
\* line with an empty value leaves the variable empty for the next line.
RECURSIVE scanLabel(_, _, _)
scanLabel(lines, label, found) ==
    IF lines = << >> THEN found
    ELSE LET line == TrimSpace(Head(lines))
         IN  IF found = << >> /\ HasPrefix(line, label)
             THEN scanLabel(Tail(lines), label, TrimSpace(TrimPrefix(line, label)))
             ELSE scanLabel(Tail(lines), label, found)

\* First pass: << clientVersion, kustomizeVersion >> after the scan.
RECURSIVE scanClient(_, _, _)
scanClient(rs, cv, kv) ==
    IF rs = << >> THEN << cv, kv >>
    ELSE LET result == Head(rs)
             output == TrimSpace(result.output)
             lines == Split(output, "\n")
             cv2 == scanLabel(lines, ClientLabel, cv)
             kv2 == scanLabel(lines, KustomizeLabel, kv)
         IN  IF result.err # NoError THEN scanClient(Tail(rs), cv, kv)
             ELSE IF output = << >> THEN scanClient(Tail(rs), cv, kv)
             ELSE IF cv2 # << >> /\ kv2 # << >> THEN << cv2, kv2 >>
             ELSE scanClient(Tail(rs), cv2, kv2)

\* The server version recorded for one result.
serverVersionOf(result) ==
    LET output == TrimSpace(result.output)
        sv == firstLabelled(Split(output, "\n"), ServerLabel)
    IN  IF result.err # NoError THEN SentinelError
        ELSE IF output = << >> THEN SentinelNA
        ELSE IF sv = << >> THEN SentinelNA
        ELSE sv

\* versionData[result.context] = versionInfo{serverVersion: v}
Store(m, k, v) == [x \in DOMAIN m \cup { k } |-> IF x = k THEN v ELSE m[x]]

\* Second pass: the map versionData, keyed by context name.
RECURSIVE versionData(_, _)
versionData(rs, m) ==
    IF rs = << >> THEN m
    ELSE versionData(Tail(rs), Store(m, Head(rs).context, serverVersionOf(Head(rs))))

\* Second pass, diagnostic output.
RECURSIVE versionErrors(_)
versionErrors(rs) ==
    IF rs = << >> THEN << >>
    ELSE (IF Head(rs).err # NoError
          THEN printError(Head(rs).context, Head(rs).err, Head(rs).output)
          ELSE << >>)
         \o versionErrors(Tail(rs))

\* The client and kustomize versions at the top, with the blank line.
printClient(cv, kv) ==
    (IF cv # << >> THEN << Printf("Client Version: %s\n", << cv >>) >> ELSE << >>)
    \o (IF kv # << >> THEN << Printf("Kustomize Version: %s\n", << kv >>) >> ELSE << >>)
    \o (IF cv # << >> \/ kv # << >> THEN << Printf("\n", << >>) >> ELSE << >>)

\* The table header and the separator rule.
printTableHeader ==
    << Printf(VersionRowFmt, << ContextLabel, ServerVersionTitle >>),
       Printf("%s\n", << Repeat("-", 50) >>) >>

\* The table rows: each result's context with versionData[result.context].
printTableRows(rs, m) ==
    [i \in 1..Len(rs) |-> Printf(VersionRowFmt, << rs[i].context, m[rs[i].context] >>)]

InitVersion ==
    \E rs \in SeqsUpTo(VersionResults, MaxResults) :
        InitFormat(rs, formatDefault, "version")

\* formatOutput with the default format and the version subcommand.
FormatVersionOutput ==
    /\ pc = "format"
    /\ format \notin { formatJSON, formatYAML }
    /\ subcommand = "version"
    /\ LET cl == scanClient(results, << >>, << >>)
           m == versionData(results, << >>)
       IN  /\ stdout' = printClient(cl[1], cl[2]) \o printTableHeader
                        \o printTableRows(results, m)
           /\ stderr' = versionErrors(results)
    /\ retErr' = NoError
    /\ pc' = "done"
    /\ UNCHANGED << args, format, kube, filterPattern, contexts, fallbackUsed,
                    resolved, subcommand, results, idx, allItems, origin >>

NextVersion == FormatVersionOutput

SpecVersion == InitVersion /\ [][NextVersion]_vars

----------------------------------------------------------------------------
(* formatVersionOutput, the revision that prints one block per context *)

\* The indented lines of one block: the non-blank lines, trimmed.
RECURSIVE printBlockLines(_)
printBlockLines(lines) ==
    IF lines = << >> THEN << >>
    ELSE (IF TrimSpace(Head(lines)) # << >>
          THEN << Printf("  %s\n", << TrimSpace(Head(lines)) >>) >>
          ELSE << >>)
         \o printBlockLines(Tail(lines))

\* Primary output: a block for every success with a non-empty payload.
RECURSIVE printBlocks(_)
printBlocks(rs) ==
    IF rs = << >> THEN << >>
    ELSE LET result == Head(rs)
             output == TrimSpace(result.output)
         IN  (IF result.err # NoError \/ output = << >> THEN << >>
              ELSE << Printf("=== %s ===\n", << result.context >>) >>
                   \o printBlockLines(Split(output, "\n"))
                   \o << Printf("\n", << >>) >>)
             \o printBlocks(Tail(rs))

FormatVersionBlocks ==
    /\ pc = "format"
    /\ format \notin { formatJSON, formatYAML }
    /\ subcommand = "version"
    /\ stdout' = printBlocks(results)
    /\ stderr' = versionErrors(results)
    /\ retErr' = NoError
    /\ pc' = "done"
    /\ UNCHANGED << args, format, kube, filterPattern, contexts, fallbackUsed,
                    resolved, subcommand, results, idx, allItems, origin >>

NextVersionBlocks == FormatVersionBlocks

SpecVersionBlocks == InitVersion /\ [][NextVersionBlocks]_vars

\* The rows of the version table: the lines after the separator rule.
TableRows == SubSeq(stdout, Len(stdout) - Len(results) + 1, Len(stdout))

\* The lines of result i that carry a server version, trimmed.
ServerLines(i) ==
    LET lines == Split(TrimSpace(results[i].output), "\n")
    IN  { j \in 1..Len(lines) :
            /\ HasPrefix(TrimSpace(lines[j]), ServerLabel)
            /\ TrimSpace(TrimPrefix(TrimSpace(lines[j]), ServerLabel)) # << >> }

\* The server version result i itself calls for.
OwnVersion(i) ==
    LET lines == Split(TrimSpace(results[i].output), "\n")
        j == CHOOSE a \in ServerLines(i) : \A b \in ServerLines(i) : a <= b
    IN  IF results[i].err # NoError THEN SentinelError
        ELSE IF ServerLines(i) = {} THEN SentinelNA
        ELSE TrimSpace(TrimPrefix(TrimSpace(lines[j]), ServerLabel))

\* C8: in the Version strategy the table has exactly one row per result, in
\* result order, and row i shows the context of result i with the server
\* version of that same result: ERROR if it failed, the trimmed value of its
\* own first Server Version line if it succeeded and has one, N/A otherwise;
\* also when two results carry the same context name.
C8_AsStated ==
    pc = "done" =>
        /\ Len(stdout) >= Len(results) + 2
        /\ stdout[Len(stdout) - Len(results)].args = << Repeat("-", 50) >>
        /\ \A i \in 1..Len(results) :
              /\ TableRows[i].fmt = VersionRowFmt
              /\ TableRows[i].args = << results[i].context, OwnVersion(i) >>

----------------------------------------------------------------------------
(* formatJSONOutput and formatYAMLOutput: decoded documents *)

\* interface{} values as encoding/json and yaml.v3 decode them: a
\* map[string]interface{}, a []interface{}, a scalar or nil.  A Go map
\* variable that was never made is NilMap: reading it finds no key, writing
\* to it panics.
Obj(f) == [k |-> "object", v |-> f]

Arr(q) == [k |-> "array", v |-> q]

Str(t) == [k |-> "string", v |-> t]

Num(t) == [k |-> "number", v |-> t]

Null == [k |-> "null", v |-> << >>]

NilMap == [k |-> "nilmap", v |-> << >>]

IsObj(x) == x.k = "object"

\* value, exists := m[key]
HasKey(m, key) == IsObj(m) /\ key \in DOMAIN m.v

\* m[key] = val on a map that was made
SetKey(m, key, val) ==
    Obj([x \in DOMAIN m.v \cup { key } |-> IF x = key THEN val ELSE m.v[x]])

\* metadata, ok := m["metadata"].(map[string]interface{})
HasMetadata(m) == HasKey(m, "metadata") /\ IsObj(m.v["metadata"])

PayloadEmpty == << >>

PayloadNull == << "null" >>

PayloadText == << "not json" >>

PayloadList == << "{\"items\":[{\"metadata\":{\"name\":\"p\"}},{\"kind\":\"Pod\"}]}" >>

PayloadSingle == << "{\"x\":1}" >>

PayloadSingleMeta == << "{\"metadata\":{\"name\":\"n\"}}" >>

PayloadMixed == << "{\"items\":[1,{\"metadata\":{}}]}" >>

PayloadItemsText == << "{\"items\":\"none\"}" >>

PayloadEmptyList == << "{\"items\":[]}" >>

Payloads ==
    { PayloadEmpty, PayloadNull, PayloadText, PayloadList, PayloadSingle,
      PayloadSingleMeta, PayloadMixed, PayloadItemsText, PayloadEmptyList }

Decoded(x) == [err |-> NoError, data |-> x]

Undecodable(msg) == [err |-> << msg >>, data |-> NilMap]

\* The documents of the payloads that are objects, in either format (the
\* payloads are JSON, which yaml.v3 reads as flow style).
Document(text) ==
    CASE text = PayloadList ->
           Obj([items |-> Arr(<< Obj([metadata |-> Obj([name |-> Str(<< "p" >>)])]),
                                  Obj([kind |-> Str(<< "Pod" >>)]) >>)])
      [] text = PayloadSingle -> Obj([x |-> Num(<< "1" >>)])
      [] text = PayloadSingleMeta -> Obj([metadata |-> Obj([name |-> Str(<< "n" >>)])])
      [] text = PayloadMixed ->
           Obj([items |-> Arr(<< Num(<< "1" >>), Obj([metadata |-> Obj(<< >>)]) >>)])
      [] text = PayloadItemsText -> Obj([items |-> Str(<< "none" >>)])
      [] text = PayloadEmptyList -> Obj([items |-> Arr(<< >>)])

\* json.Unmarshal([]byte(text), &data) with data a nil map[string]interface{}:
\* null leaves the map nil without an error; empty input is an error.
jsonUnmarshal(text) ==
    CASE text = PayloadEmpty -> Undecodable("unexpected end of JSON input")
      [] text = PayloadNull -> Decoded(NilMap)
      [] text = PayloadText ->
           Undecodable("invalid character 'o' in literal null (expecting 'u')")
      [] OTHER -> Decoded(Document(text))

\* yaml.Unmarshal([]byte(text), &data): an empty document and null both
\* leave the map nil without an error; a plain scalar is a type error.
yamlUnmarshal(text) ==
    CASE text = PayloadEmpty -> Decoded(NilMap)
      [] text = PayloadNull -> Decoded(NilMap)
      [] text = PayloadText ->
           Undecodable("yaml: unmarshal errors: cannot unmarshal !!str into map")
      [] OTHER -> Decoded(Document(text))

Unmarshal(f, text) == IF f = formatJSON THEN jsonUnmarshal(text) ELSE yamlUnmarshal(text)

FormatName(f) == IF f = formatJSON THEN "JSON" ELSE "YAML"

\* "Context %s: Failed to parse JSON: %v\n" and its YAML twin
ParseFailFmt(f) == "Context %s: Failed to parse " \o FormatName(f) \o ": %v\n"

\* The error branch: errorData["context"], errorData["error"].
tagError(errorData, c, e) == SetKey(SetKey(errorData, "context", Str(c)), "error", Str(e))

\* One element of items: metadata["context"] is set in the element's
\* metadata map, or the element gets a metadata map holding only context.
tagItem(itemMap, c) ==
    IF HasMetadata(itemMap)
    THEN SetKey(itemMap, "metadata", SetKey(itemMap.v["metadata"], "context", Str(c)))
    ELSE SetKey(itemMap, "metadata", Obj([context |-> Str(c)]))

\* The loop over items: the elements that are maps, tagged.
RECURSIVE tagItems(_, _)
tagItems(items, c) ==
    IF items = << >> THEN << >>
    ELSE (IF IsObj(Head(items)) THEN << tagItem(Head(items), c) >> ELSE << >>)
         \o tagItems(Tail(items), c)

\* A document without items: metadata["context"], or data["context"].
tagRoot(data, c) ==
    IF HasMetadata(data)
    THEN SetKey(data, "metadata", SetKey(data.v["metadata"], "context", Str(c)))
    ELSE SetKey(data, "context", Str(c))

\* json.MarshalIndent of the envelope: a nil slice encodes as null.
jsonMarshal(items) ==
    Obj([apiVersion |-> Str(<< "v1" >>), kind |-> Str(<< "List" >>),
         items |-> IF items = << >> THEN Null ELSE Arr(items)])

\* yaml.Marshal of the envelope: a nil slice encodes as [].
yamlMarshal(items) ==
    Obj([apiVersion |-> Str(<< "v1" >>), kind |-> Str(<< "List" >>),
         items |-> Arr(items)])

StructuredCtx == { << "a" >>, << "b", "b" >> }

StructuredResults ==
    { contextResult(c, o, NoError) : c \in StructuredCtx, o \in Payloads }
    \cup
    { contextResult(c, o, ExitError) :
        c \in StructuredCtx,
        o \in { PayloadEmpty, PayloadText, PayloadSingle, PayloadNull } }

InitStructured ==
    \E rs \in SeqsUpTo(StructuredResults, MaxResults) :
        \E f \in { formatJSON, formatYAML } : InitFormat(rs, f, "get")

Appended(n) == [i \in 1..n |-> idx + 1]

\* One iteration of the loop over results, in either function.
Visit ==
    /\ pc = "format"
    /\ format \in { formatJSON, formatYAML }
    /\ idx < Len(results)
    /\ idx' = idx + 1
    /\ UNCHANGED << args, format, kube, filterPattern, contexts, fallbackUsed,
                    resolved, retErr, subcommand, results, stdout >>
    /\ LET result == results[idx + 1]
           dec == Unmarshal(format, result.output)
           data == dec.data
           errLine == Printf(ErrorFmt, << result.context, result.err >>)
       IN
       \/ /\ result.err # NoError
          /\ result.output = << >> \/ dec.err # NoError
          /\ stderr' = Append(stderr, errLine)
          /\ UNCHANGED << pc, allItems, origin >>
       \/ /\ result.err # NoError
          /\ result.output # << >> /\ dec.err = NoError
          /\ data # NilMap
          /\ stderr' = Append(stderr, errLine)
          /\ allItems' = Append(allItems, tagError(data, result.context, result.err))
          /\ origin' = origin \o Appended(1)
          /\ UNCHANGED pc
       \/ /\ result.err # NoError
          /\ result.output # << >> /\ dec.err = NoError
          /\ data = NilMap
          /\ stderr' = Append(stderr, errLine)
          /\ pc' = "panic"
          /\ UNCHANGED << allItems, origin >>
       \/ /\ result.err = NoError
          /\ dec.err # NoError
          /\ stderr' = Append(stderr,
                 Printf(ParseFailFmt(format), << result.context, dec.err >>))
          /\ UNCHANGED << pc, allItems, origin >>
       \/ /\ result.err = NoError
          /\ dec.err = NoError
          /\ HasKey(data, "items")
          /\ data.v["items"].k # "array"
          /\ UNCHANGED << pc, allItems, origin, stderr >>
       \/ /\ result.err = NoError
          /\ dec.err = NoError
          /\ HasKey(data, "items")
          /\ data.v["items"].k = "array"
          /\ LET tagged == tagItems(data.v["items"].v, result.context)
             IN  /\ allItems' = allItems \o tagged
                 /\ origin' = origin \o Appended(Len(tagged))
          /\ UNCHANGED << pc, stderr >>
       \/ /\ result.err = NoError
          /\ dec.err = NoError
          /\ ~HasKey(data, "items")
          /\ data # NilMap
          /\ allItems' = Append(allItems, tagRoot(data, result.context))
          /\ origin' = origin \o Appended(1)
          /\ UNCHANGED << pc, stderr >>
       \/ /\ result.err = NoError
          /\ dec.err = NoError
          /\ data = NilMap
          /\ pc' = "panic"
          /\ UNCHANGED << allItems, origin, stderr >>

\* formatJSONOutput: the loop, then the envelope.
FormatJSONOutput ==
    /\ format = formatJSON
    /\ Visit

EmitJSON ==
    /\ pc = "format"
    /\ format = formatJSON
    /\ idx = Len(results)
    /\ stdout' = << jsonMarshal(allItems) >>
    /\ retErr' = NoError
    /\ pc' = "done"
    /\ UNCHANGED << args, format, kube, filterPattern, contexts, fallbackUsed,
                    resolved, subcommand, results, idx, allItems, origin, stderr >>

\* formatYAMLOutput: the loop, then the envelope.
FormatYAMLOutput ==
    /\ format = formatYAML
    /\ Visit

EmitYAML ==
    /\ pc = "format"
    /\ format = formatYAML
    /\ idx = Len(results)
    /\ stdout' = << yamlMarshal(allItems) >>
    /\ retErr' = NoError
    /\ pc' = "done"
    /\ UNCHANGED << args, format, kube, filterPattern, contexts, fallbackUsed,
                    resolved, subcommand, results, idx, allItems, origin, stderr >>

NextStructured == FormatJSONOutput \/ EmitJSON \/ FormatYAMLOutput \/ EmitYAML

SpecStructured == InitStructured /\ [][NextStructured]_vars

----------------------------------------------------------------------------
(* Properties of formatJSONOutput and formatYAMLOutput *)

\* The entries of allItems that result i contributed, in order.
RECURSIVE EntriesFrom(_, _)
EntriesFrom(i, k) ==
    IF k > Len(allItems) THEN << >>
    ELSE (IF origin[k] = i THEN << allItems[k] >> ELSE << >>) \o EntriesFrom(i, k + 1)

EntriesOf(i) == EntriesFrom(i, 1)

\* Result i succeeded and its payload decodes in the requested format.
DecodedOK(i) ==
    results[i].err = NoError /\ Unmarshal(format, results[i].output).err = NoError

DocOf(i) == Unmarshal(format, results[i].output).data

\* The decoded document of result i has a top-level items field holding a list.
HasItemsList(i) == HasKey(DocOf(i), "items") /\ DocOf(i).v["items"].k = "array"

\* Entry e is record r with its provenance under metadata.context: inside
\* r's metadata object when r has one, else in a metadata object holding
\* only context; every other field is r's.
TaggedUnderMetadata(e, r, c) ==
    /\ IsObj(e)
    /\ DOMAIN e.v = DOMAIN r.v \cup { "metadata" }
    /\ \A key \in DOMAIN r.v \ { "metadata" } : e.v[key] = r.v[key]
    /\ IsObj(e.v["metadata"])
    /\ "context" \in DOMAIN e.v["metadata"].v
    /\ e.v["metadata"].v["context"] = Str(c)
    /\ IF HasMetadata(r)
       THEN /\ DOMAIN e.v["metadata"].v = DOMAIN r.v["metadata"].v \cup { "context" }
            /\ \A key \in DOMAIN r.v["metadata"].v \ { "context" } :
                  e.v["metadata"].v[key] = r.v["metadata"].v[key]
       ELSE DOMAIN e.v["metadata"].v = { "context" }

\* C1: for JSON and YAML, the entries a successfully decoded result with a
\* top-level items list contributes to the merged items are exactly its
\* elements, in element order, one entry per element (none dropped, none
\* duplicated, none reordered), each with metadata.context set to the
\* result's context (inside the existing metadata object, else in a
\* synthesized one); results contribute in result order.
C1_AsStated ==
    pc = "done" =>
        /\ \A k \in 1..(Len(origin) - 1) : origin[k] <= origin[k + 1]
        /\ \A i \in 1..Len(results) :
              (DecodedOK(i) /\ HasItemsList(i)) =>
                  LET items == DocOf(i).v["items"].v
                      E == EntriesOf(i)
                  IN  /\ Len(E) = Len(items)
                      /\ \A k \in 1..Len(items) :
                            IsObj(items[k]) =>
                                TaggedUnderMetadata(E[k], items[k], results[i].context)

\* C2: for JSON and YAML and every results collection, the emitted document
\* is one envelope with apiVersion "v1", kind "List" and an items field that
\* is a list as long as the tagged records; with no record, items is an
\* empty list, never null or missing.
C2_AsStated ==
    pc = "done" =>
        /\ Len(stdout) = 1
        /\ IsObj(stdout[1])
        /\ DOMAIN stdout[1].v = { "apiVersion", "kind", "items" }
        /\ stdout[1].v["apiVersion"] = Str(<< "v1" >>)
        /\ stdout[1].v["kind"] = Str(<< "List" >>)
        /\ stdout[1].v["items"].k = "array"
        /\ Len(stdout[1].v["items"].v) = Len(allItems)

\* C3: for JSON and YAML the aggregator visits every result and then emits
\* the envelope: no result's outcome (an error, an undecodable, empty or
\* null payload, a document of any shape) aborts or crashes the run.
C3_AsStated ==
    /\ pc # "panic"
    /\ pc = "done" => (idx = Len(results) /\ Len(stdout) = 1)

\* The run is over: the envelope was printed, or the run panicked.
Terminated == pc \in { "done", "panic" }

\* The successes whose payload does not decode in the requested format.
Undecodables ==
    { i \in 1..Len(results) :
        results[i].err = NoError /\ Unmarshal(format, results[i].output).err # NoError }

\* C4: every successful result whose payload cannot be decoded in the
\* requested format F contributes no entry to the merged items and produces
\* exactly one diagnostic line `Context <name>: Failed to parse <F>: <error>`
\* naming its context and F.
C4_AsStated ==
    Terminated =>
        \A i \in Undecodables :
            LET line == [fmt |-> "Context %s: Failed to parse "
                                   \o (IF format = formatJSON THEN "JSON" ELSE "YAML")
                                   \o ": %v\n",
                         args |-> << results[i].context,
                                     Unmarshal(format, results[i].output).err >>]
            IN  /\ EntriesOf(i) = << >>
                /\ Cardinality({ k \in 1..Len(stderr) : stderr[k] = line })
                     = Cardinality({ j \in Undecodables :
                                       /\ results[j].context = results[i].context
                                       /\ results[j].output = results[i].output })

\* C5: for JSON and YAML, every successfully decoded document without a
\* top-level items field holding a list is one record and contributes
\* exactly one entry: with metadata.context set when it has a metadata
\* object, else with a top-level context field and no metadata object made.
C5_AsStated ==
    pc = "done" =>
        \A i \in 1..Len(results) :
            (DecodedOK(i) /\ ~HasItemsList(i)) =>
                LET E == EntriesOf(i)
                    doc == DocOf(i)
                IN  /\ Len(E) = 1
                    /\ IsObj(E[1])
                    /\ IF HasMetadata(doc)
                       THEN TaggedUnderMetadata(E[1], doc, results[i].context)
                       ELSE /\ DOMAIN E[1].v = DOMAIN doc.v \cup { "context" }
                            /\ E[1].v["context"] = Str(results[i].context)
                            /\ \A key \in DOMAIN doc.v \ { "context" } :
                                  E[1].v[key] = doc.v[key]

====
